---- MODULE Spec2Model ----
(***************************************************************************)
(* procr.py: one invocation of the procr command line program.             *)
(* The host (psutil's platform flags, the values its queries return or the *)
(* error they raise, the processes it enumerates) is the environment; the  *)
(* program is main() and the helpers it calls.  out is standard output,    *)
(* one string per printed line, built the way print() builds it.           *)
(***************************************************************************)
EXTENDS Integers, Sequences, FiniteSets

VARIABLES
    flags,            \* psutil.LINUX, psutil.WINDOWS, ...: family -> BOOLEAN
    pc,               \* position of main()
    proc_list,        \* args.list
    which_op_system,  \* result of which_os(), None before the call
    processes_list,   \* result of get_proc_list()
    info_keys,        \* key order of the proc.info dicts of this enumeration
    idx,              \* position of the for loop over processes_list
    sys_storage_info, \* result of get_system_storage_info()
    out,              \* lines printed to standard output
    calls,            \* history: the helper calls main() made, in order
    term,             \* how the run ended: running, exit, return, exception
    status            \* exit status of the process, -1 while running

vars == <<flags, pc, proc_list, which_op_system, processes_list, info_keys,
          idx, sys_storage_info, out, calls, term, status>>

----------------------------------------------------------------------------
(* Bounds of the environment. *)

MaxProcs == 2   \* processes returned by one enumeration
MaxVal == 2     \* largest value a metric query returns

----------------------------------------------------------------------------
(* Values and their printed form. *)

None == "<None>"

Digit == <<"0", "1", "2", "3", "4", "5", "6", "7", "8", "9">>

RECURSIVE StrInt(_)
StrInt(n) ==
    IF n < 10 THEN Digit[n + 1]
    ELSE StrInt(n \div 10) \o Digit[(n % 10) + 1]

\* str() of a float holding a whole number, as cpu_percent returns
StrFloat(n) == StrInt(n) \o ".0"

\* str() of a number of the given type
Str(type, n) == IF type = "float" THEN StrFloat(n) ELSE StrInt(n)

\* str() of a text value or None
StrText(v) == IF v = None THEN "None" ELSE v

\* print(a, b): the arguments joined by one space
Print2(a, b) == a \o " " \o b

\* print(a, b, c)
Print3(a, b, c) == a \o " " \o b \o " " \o c

----------------------------------------------------------------------------
(* which_os *)

avail_sys_types ==
    <<"linux", "windows", "macos", "freebsd", "netbsd", "openbsd", "bsd",
      "sunos", "aix">>

Families == {avail_sys_types[k] : k \in 1..Len(avail_sys_types)}

\* The loop with the return None left where a fixed program would have it:
\* after the loop.
RECURSIVE which_os_fallthrough_loop(_, _)
which_os_fallthrough_loop(f, k) ==
    IF k > Len(avail_sys_types) THEN None
    ELSE IF f[avail_sys_types[k]] = TRUE THEN avail_sys_types[k]
    ELSE which_os_fallthrough_loop(f, k + 1)

which_os_fallthrough(f) == which_os_fallthrough_loop(f, 1)

\* for key, val in avail_sys_types.items(): the body of iteration k.  The
\* return None is inside the loop body, so iteration k + 1 never runs.
which_os_loop(f, k) ==
    IF k > Len(avail_sys_types) THEN None
    ELSE IF f[avail_sys_types[k]] = TRUE THEN avail_sys_types[k]
    ELSE None

which_os(f) == which_os_loop(f, 1)

----------------------------------------------------------------------------
(* get_system_storage_info *)

DiskPathSwapped(os_type) == IF os_type = "windows" THEN "/" ELSE "C:\\"

\* the path psutil.disk_usage is called with
DiskPath(os_type) == IF os_type = "windows" THEN "C:\\" ELSE "/"

\* main(): the os_type argument passed for a detected family
StorageArg(os) == IF os = "windows" THEN "windows" ELSE "other"

----------------------------------------------------------------------------
(* The environment's values. *)

Vals == 1..MaxVal

ProcRecs ==
    { [pid |-> 1, name |-> "init", username |-> "root"],
      [pid |-> 42, name |-> "shell", username |-> "alice"] }

ProcLists == UNION {[1..n -> ProcRecs] : n \in 0..MaxProcs}

InfoKeys == {"pid", "name", "username"}

\* The key order of a proc.info dict is the provider's: any order of the
\* three requested attributes.
InfoKeyOrders ==
    {s \in [1..3 -> InfoKeys] : \A a, b \in 1..3 : a # b => s[a] # s[b]}

----------------------------------------------------------------------------
(* Printed lines. *)

HeaderLines ==
    <<"--- procr program output ---",
      "----------------------------",
      "*System information follows*",
      "----------------------------">>

ErrorLine == "ERROR! Operating system not detected!"

BorderLine == "----------------------"

OsLine(v) == Print2("Operating system:         ", StrText(v))
StorageHeading == "System storage information: "
StorageTotalLine(v) == Print2("    Total: ", StrInt(v))
StorageFreeLine(v) == Print2("    Free:  ", StrInt(v))

\* str() of the value of one key of a proc.info dict
InfoVal(p, key) ==
    IF key = "pid" THEN StrInt(p.pid)
    ELSE IF key = "name" THEN StrText(p.name)
    ELSE StrText(p.username)

\* print(key, "    ", val)
KeyLine(p, key) == Print3(key, "    ", InfoVal(p, key))

\* the lines printed for one process: border, one line per item, border
ProcBlock(p, keys) ==
    <<BorderLine>> \o [k \in 1..Len(keys) |-> KeyLine(p, keys[k])]
        \o <<BorderLine>>

----------------------------------------------------------------------------
(* History of helper calls. *)

Call(fn, arg, ret) == [fn |-> fn, arg |-> arg, ret |-> ret]

Raised == "raise"

\* An exception no handler catches: the traceback ends the process.
Abort(fn, arg) ==
    /\ calls' = Append(calls, Call(fn, arg, Raised))
    /\ pc' = "done"
    /\ term' = "exception"
    /\ status' = 1

----------------------------------------------------------------------------
(* main *)

Init ==
    /\ flags \in [Families -> BOOLEAN]
    /\ pc = "parse"
    /\ proc_list = FALSE
    /\ which_op_system = None
    /\ processes_list = <<>>
    /\ info_keys = <<>>
    /\ idx = 0
    /\ sys_storage_info = [total |-> 0, free |-> 0]
    /\ out = <<>>
    /\ calls = <<>>
    /\ term = "running"
    /\ status = -1

\* args = parse_cmdline(); proc_list = args.list
ParseCmdline ==
    /\ pc = "parse"
    /\ \E l \in BOOLEAN : proc_list' = l
    /\ calls' = Append(calls, Call("parse_cmdline", "", ""))
    /\ pc' = "header"
    /\ UNCHANGED <<flags, which_op_system, processes_list, info_keys, idx,
                   sys_storage_info, out, term, status>>

PrintOutputHeader ==
    /\ pc = "header"
    /\ out' = out \o HeaderLines
    /\ calls' = Append(calls, Call("print_output_header", "", ""))
    /\ pc' = "which_os"
    /\ UNCHANGED <<flags, proc_list, which_op_system, processes_list,
                   info_keys, idx, sys_storage_info, term, status>>

WhichOs ==
    /\ pc = "which_os"
    /\ which_op_system' = which_os(flags)
    /\ calls' = Append(calls, Call("which_os", "", which_os(flags)))
    /\ pc' = "check"
    /\ UNCHANGED <<flags, proc_list, processes_list, info_keys, idx,
                   sys_storage_info, out, term, status>>

\* The same branch with sys.exit(1) forgotten: main() goes on.
OsNotDetectedNoExit ==
    /\ pc = "check"
    /\ which_op_system = None
    /\ out' = Append(out, ErrorLine)
    /\ pc' = "branch"
    /\ UNCHANGED <<flags, proc_list, which_op_system, processes_list,
                   info_keys, idx, sys_storage_info, calls, term, status>>

\* The same branch leaving with sys.exit(0).
OsNotDetectedExitZero ==
    /\ pc = "check"
    /\ which_op_system = None
    /\ out' = Append(out, ErrorLine)
    /\ pc' = "done"
    /\ term' = "exit"
    /\ status' = 0
    /\ UNCHANGED <<flags, proc_list, which_op_system, processes_list,
                   info_keys, idx, sys_storage_info, calls>>

\* if which_op_system is None: print the error, sys.exit(1)
OsNotDetected ==
    /\ pc = "check"
    /\ which_op_system = None
    /\ out' = Append(out, ErrorLine)
    /\ pc' = "done"
    /\ term' = "exit"
    /\ status' = 1
    /\ UNCHANGED <<flags, proc_list, which_op_system, processes_list,
                   info_keys, idx, sys_storage_info, calls>>

\* if which_op_system is None: false, main() goes on to the mode branches
OsDetected ==
    /\ pc = "check"
    /\ which_op_system # None
    /\ pc' = "branch"
    /\ UNCHANGED <<flags, proc_list, which_op_system, processes_list,
                   info_keys, idx, sys_storage_info, out, calls, term, status>>

\* processes_list = get_proc_list(): the whole enumeration, or its error
CallGetProcList ==
    \/ \E ps \in ProcLists, ks \in InfoKeyOrders :
         /\ processes_list' = ps
         /\ info_keys' = ks
         /\ idx' = 1
         /\ calls' = Append(calls, Call("get_proc_list", "", StrInt(Len(ps))))
         /\ pc' = IF Len(ps) = 0 THEN "summary" ELSE "loop"
         /\ UNCHANGED <<term, status>>
    \/ /\ Abort("get_proc_list", "")
       /\ UNCHANGED <<processes_list, info_keys, idx>>

\* The list branch taken whatever the flag says.
GetProcListAlways ==
    /\ pc = "branch"
    /\ CallGetProcList
    /\ UNCHANGED <<flags, proc_list, which_op_system, sys_storage_info, out>>

\* if proc_list: processes_list = get_proc_list()
GetProcList ==
    /\ pc = "branch"
    /\ proc_list
    /\ CallGetProcList
    /\ UNCHANGED <<flags, proc_list, which_op_system, sys_storage_info, out>>

\* one iteration of: for proc in processes_list
PrintProc ==
    /\ pc = "loop"
    /\ idx <= Len(processes_list)
    /\ out' = out \o ProcBlock(processes_list[idx], info_keys)
    /\ idx' = idx + 1
    /\ pc' = IF idx = Len(processes_list) THEN "summary" ELSE "loop"
    /\ UNCHANGED <<flags, proc_list, which_op_system, processes_list,
                   info_keys, sys_storage_info, calls, term, status>>

\* The summary branch taken whatever the flag says.
PrintOperatingSystemAlways ==
    /\ pc \in {"branch", "summary"}
    /\ out' = Append(out, OsLine(which_op_system))
    /\ pc' = "cpu_count"
    /\ UNCHANGED <<flags, proc_list, which_op_system, processes_list,
                   info_keys, idx, sys_storage_info, calls, term, status>>

\* if not proc_list: print("Operating system:         ", which_op_system)
\* In summary mode the list branch is skipped, so the test is reached from
\* "branch"; in list mode it is reached after the loop and is false.
PrintOperatingSystem ==
    /\ pc \in {"branch", "summary"}
    /\ ~proc_list
    /\ out' = Append(out, OsLine(which_op_system))
    /\ pc' = "cpu_count"
    /\ UNCHANGED <<flags, proc_list, which_op_system, processes_list,
                   info_keys, idx, sys_storage_info, calls, term, status>>

\* A print whose argument is a query: the query runs first, and the line is
\* printed only if the query returns.
PrintQuery(at, fn, label, type, next) ==
    /\ pc = at
    /\ \/ \E v \in Vals :
            /\ calls' = Append(calls, Call(fn, "", Str(type, v)))
            /\ out' = Append(out, Print2(label, Str(type, v)))
            /\ pc' = next
            /\ UNCHANGED <<term, status>>
       \/ /\ Abort(fn, "")
          /\ UNCHANGED out
    /\ UNCHANGED <<flags, proc_list, which_op_system, processes_list,
                   info_keys, idx, sys_storage_info>>

PrintCpuCount ==
    PrintQuery("cpu_count", "get_num_cpus", "System CPU count:         ",
               "int", "cpu_usage")

PrintCpuUsage ==
    PrintQuery("cpu_usage", "get_cpu_usage", "CPU usage percentage:     ",
               "float", "mem_total")

PrintTotalMemory ==
    PrintQuery("mem_total", "get_total_system_memory",
               "System total memory:      ", "int", "mem_avail")

PrintAvailableMemory ==
    PrintQuery("mem_avail", "get_available_system_memory",
               "System available memory:  ", "int", "storage")

\* sys_storage_info = get_system_storage_info("windows" or "other")
GetSystemStorageInfo ==
    /\ pc = "storage"
    /\ LET path == DiskPath(StorageArg(which_op_system)) IN
       \/ \E t \in Vals, f \in Vals :
            /\ sys_storage_info' = [total |-> t, free |-> f]
            /\ calls' = Append(calls,
                   Call("get_system_storage_info", path, "usage"))
            /\ pc' = "print_storage"
            /\ UNCHANGED <<term, status>>
       \/ /\ Abort("get_system_storage_info", path)
          /\ UNCHANGED sys_storage_info
    /\ UNCHANGED <<flags, proc_list, which_op_system, processes_list,
                   info_keys, idx, out>>

\* The two fields printed under each other's label.
PrintStorageSwapped ==
    /\ pc = "print_storage"
    /\ out' = out \o <<StorageHeading,
                       StorageTotalLine(sys_storage_info.free),
                       StorageFreeLine(sys_storage_info.total)>>
    /\ pc' = "return"
    /\ UNCHANGED <<flags, proc_list, which_op_system, processes_list,
                   info_keys, idx, sys_storage_info, calls, term, status>>

PrintStorage ==
    /\ pc = "print_storage"
    /\ out' = out \o <<StorageHeading,
                       StorageTotalLine(sys_storage_info.total),
                       StorageFreeLine(sys_storage_info.free)>>
    /\ pc' = "return"
    /\ UNCHANGED <<flags, proc_list, which_op_system, processes_list,
                   info_keys, idx, sys_storage_info, calls, term, status>>

\* main() returns and the interpreter exits with status 0: after the last
\* summary line, or in list mode when "if not proc_list" is false
Return ==
    /\ \/ pc = "return"
       \/ pc = "summary" /\ proc_list
    /\ pc' = "done"
    /\ term' = "return"
    /\ status' = 0
    /\ UNCHANGED <<flags, proc_list, which_op_system, processes_list,
                   info_keys, idx, sys_storage_info, out, calls>>

Next ==
    \/ ParseCmdline
    \/ PrintOutputHeader
    \/ WhichOs
    \/ OsNotDetected
    \/ OsDetected
    \/ GetProcList
    \/ PrintProc
    \/ PrintOperatingSystem
    \/ PrintCpuCount
    \/ PrintCpuUsage
    \/ PrintTotalMemory
    \/ PrintAvailableMemory
    \/ GetSystemStorageInfo
    \/ PrintStorage
    \/ Return

Spec == Init /\ [][Next]_vars

----------------------------------------------------------------------------
(* Vocabulary of the properties. *)

\* the lines printed after the header
Rest == SubSeq(out, Len(HeaderLines) + 1, Len(out))

CallIdx(fn) == {i \in 1..Len(calls) : calls[i].fn = fn}

Returned(fn) == \E i \in CallIdx(fn) : calls[i].ret # Raised

RetOf(fn) == calls[CHOOSE i \in CallIdx(fn) : TRUE].ret

SomeRaised == \E i \in 1..Len(calls) : calls[i].ret = Raised

Detected == CallIdx("which_os") # {}

NoFamily == \A f \in Families : ~flags[f]

MetricFns ==
    {"get_num_cpus", "get_cpu_usage", "get_total_system_memory",
     "get_available_system_memory", "get_system_storage_info"}

QueryFns == MetricFns \cup {"get_proc_list"}

\* The output format as the specification's section 6 writes it.
FmtHeader ==
    <<"--- procr program output ---",
      "----------------------------",
      "*System information follows*",
      "----------------------------">>
FmtOs(x) == "Operating system:          " \o x
FmtCpuCount(x) == "System CPU count:          " \o x
FmtCpuUsage(x) == "CPU usage percentage:      " \o x
FmtTotalMem(x) == "System total memory:       " \o x
FmtAvailMem(x) == "System available memory:   " \o x
FmtStorageHead == "System storage information: "
FmtTotal(x) == "    Total:  " \o x
FmtFree(x) == "    Free:   " \o x
FmtBorder == "----------------------"
FmtKey(key, x) == key \o "      " \o x

ValStrs == {StrInt(v) : v \in Vals} \cup {StrFloat(v) : v \in Vals}

SummaryLines ==
    {FmtOs(x) : x \in Families \cup {"None"}}
        \cup {FmtCpuCount(x) : x \in ValStrs}
        \cup {FmtCpuUsage(x) : x \in ValStrs}
        \cup {FmtTotalMem(x) : x \in ValStrs}
        \cup {FmtAvailMem(x) : x \in ValStrs}
        \cup {FmtStorageHead}
        \cup {FmtTotal(x) : x \in ValStrs}
        \cup {FmtFree(x) : x \in ValStrs}

BlockLines ==
    {FmtBorder}
        \cup {FmtKey(k, InfoVal(p, k)) : p \in ProcRecs, k \in InfoKeys}

ReportLines == SummaryLines \cup BlockLines

\* the block of one process with its three lines in the order pid, name,
\* username
FmtBlock(p) ==
    <<FmtBorder, FmtKey("pid", StrInt(p.pid)), FmtKey("name", p.name),
      FmtKey("username", p.username), FmtBorder>>

RECURSIVE FmtBlocks(_)
FmtBlocks(ps) ==
    IF ps = <<>> THEN <<>> ELSE FmtBlock(Head(ps)) \o FmtBlocks(Tail(ps))

\* line i of the summary, from the values the queries returned
SummaryLine(i) ==
    CASE i = 1 -> FmtOs(RetOf("which_os"))
      [] i = 2 -> FmtCpuCount(RetOf("get_num_cpus"))
      [] i = 3 -> FmtCpuUsage(RetOf("get_cpu_usage"))
      [] i = 4 -> FmtTotalMem(RetOf("get_total_system_memory"))
      [] i = 5 -> FmtAvailMem(RetOf("get_available_system_memory"))
      [] i = 6 -> FmtStorageHead
      [] i = 7 -> FmtTotal(StrInt(sys_storage_info.total))
      [] i = 8 -> FmtFree(StrInt(sys_storage_info.free))

\* what is left of the single pass: every step of main() lowers it
Rank ==
    CASE pc = "done" -> 0
      [] pc = "return" -> 1
      [] pc = "print_storage" -> 2
      [] pc = "storage" -> 3
      [] pc = "mem_avail" -> 4
      [] pc = "mem_total" -> 5
      [] pc = "cpu_usage" -> 6
      [] pc = "cpu_count" -> 7
      [] pc = "summary" -> 8
      [] pc = "loop" -> 9 + (Len(processes_list) - idx)
      [] pc = "branch" -> 10 + MaxProcs
      [] pc = "check" -> 11 + MaxProcs
      [] pc = "which_os" -> 12 + MaxProcs
      [] pc = "header" -> 13 + MaxProcs
      [] pc = "parse" -> 14 + MaxProcs

\* no helper is called twice, no line of a summary is printed twice, and
\* the list loop prints at most one block per enumerated process
NoRepeat ==
    /\ \A i, j \in 1..Len(calls) : calls[i].fn = calls[j].fn => i = j
    /\ ~proc_list => \A i, j \in 1..Len(Rest) : Rest[i] = Rest[j] => i = j
    /\ proc_list /\ which_op_system # None
         => Len(Rest) <= 5 * Len(processes_list)
    /\ out # <<>> => SubSeq(out, 1, 4) = FmtHeader
    /\ \A i \in 5..Len(out) : out[i] # FmtHeader[1] /\ out[i] # FmtHeader[3]

----------------------------------------------------------------------------
(* The claims. *)

\* C1: which_os checks the nine families in the order linux, windows, macos,
\* freebsd, netbsd, openbsd, bsd, sunos, aix and returns the first family
\* whose flag is true; it returns None only when none of the nine is true.
C1_FirstMatch ==
    Detected =>
        /\ which_op_system = None <=> NoFamily
        /\ which_op_system # None =>
             \E k \in 1..Len(avail_sys_types) :
                /\ which_op_system = avail_sys_types[k]
                /\ flags[avail_sys_types[k]]
                /\ \A j \in 1..(k - 1) : ~flags[avail_sys_types[j]]

\* C2: on a host that matches no family, in either mode, the run prints the
\* header and the error line, exits with status 1, prints no summary line
\* and no process block, and issues no query.
C2_NotDetectedExits ==
    (Detected /\ NoFamily) =>
        /\ which_op_system = None
        /\ \A i \in 1..Len(calls) : calls[i].fn \notin QueryFns
        /\ \A i \in 1..Len(out) : out[i] \notin ReportLines
        /\ pc \in {"check", "done"}
        /\ pc = "check" => out = FmtHeader /\ ENABLED Next
        /\ pc = "done" =>
             /\ out = FmtHeader \o <<"ERROR! Operating system not detected!">>
             /\ term = "exit"
             /\ status = 1

C2_Witness ==
    NoFamily /\ pc = "done" /\ proc_list /\ status = 1 /\ Len(out) = 5

StorageCalls == CallIdx("get_system_storage_info")

StoragePathRight ==
    \A i \in StorageCalls :
        calls[i].arg = (IF which_op_system = "windows" THEN "C:\\" ELSE "/")

\* C4 as claimed: the storage query targets C:\ when the detected family is
\* windows and / otherwise, and every summary-mode run issues exactly one
\* storage query.
C4_Original ==
    /\ StoragePathRight
    /\ (pc = "done" /\ ~proc_list) => Cardinality(StorageCalls) = 1

\* C4 as amended: the storage query targets C:\ when the detected family is
\* windows and / otherwise; a run issues exactly one storage query when it
\* is a summary-mode run whose OS was detected and whose CPU and memory
\* queries returned, and none otherwise.
C4_StoragePath ==
    /\ StoragePathRight
    /\ Cardinality(StorageCalls) <= 1
    /\ pc = "done" =>
         (Cardinality(StorageCalls) = 1 <=>
             /\ ~proc_list
             /\ which_op_system # None
             /\ Returned("get_num_cpus")
             /\ Returned("get_cpu_usage")
             /\ Returned("get_total_system_memory")
             /\ Returned("get_available_system_memory"))

C4_Witness ==
    /\ pc = "done"
    /\ status = 0
    /\ \E i \in StorageCalls : calls[i].arg = "/" /\ calls[i].ret # Raised

\* C5: a failing query aborts the run with the unhandled-error status, and a
\* terminated run has printed either the full report of its mode or no
\* report line at all.
C5_AllOrNothing ==
    pc = "done" =>
        /\ SomeRaised => term = "exception" /\ status # 0
        /\ \/ \A i \in 1..Len(out) : out[i] \notin ReportLines
           \/ proc_list /\ ~SomeRaised
                /\ Len(Rest) = 5 * Len(processes_list)
           \/ ~proc_list /\ ~SomeRaised /\ Len(Rest) = 8

ExitStatusInv ==
    /\ pc # "done" => status = -1 /\ term = "running" /\ ENABLED Next
    /\ pc = "done" => status \in {0, 1} /\ term # "running"

\* C6 as claimed: the run ends with status 1 exactly when the OS family is
\* not detected, with status 0 when it is detected and every query
\* succeeds, and no step is repeated.
C6_Original ==
    /\ pc = "done" => (status = 1 <=> which_op_system = None)
    /\ (pc = "done" /\ which_op_system # None /\ ~SomeRaised) => status = 0
    /\ NoRepeat

C6_Inv ==
    /\ ExitStatusInv
    /\ pc = "done" =>
         /\ status = 1 <=> (which_op_system = None \/ SomeRaised)
         /\ status = 0 <=> (which_op_system # None /\ ~SomeRaised)
    /\ NoRepeat

\* C6 as amended: every invocation makes a single pass and terminates (each
\* step lowers the rank, and a run that has not ended can step); it ends
\* with status 1 when the OS family is not detected and also when a query
\* raises, with status 0 exactly when the OS family is detected and every
\* query succeeds; no step is repeated.
C6_SinglePass == []C6_Inv /\ [][Rank' < Rank]_vars

C6_Witness ==
    pc = "done" /\ which_op_system # None /\ SomeRaised /\ status = 1

\* C7: in list mode the output after the header is one block per enumerated
\* process, in enumeration order, each block a border, the pid, name and
\* username lines of that process in that order, and a border; with no
\* process nothing follows the header and the run succeeds.
C7_Blocks ==
    (proc_list /\ pc = "done" /\ status = 0) =>
        Rest = FmtBlocks(processes_list)

\* C8: in summary mode the lines after the header are, in this order and
\* once each, operating system, CPU count, CPU usage, total memory,
\* available memory, storage heading, storage total, storage free, each
\* with the value its own query returned; a successful run prints all
\* eight.
C8_SummaryOrder ==
    (~proc_list /\ which_op_system # None) =>
        /\ Len(Rest) <= 8
        /\ \A i \in 1..Len(Rest) : Rest[i] = SummaryLine(i)
        /\ (pc = "done" /\ status = 0) => Len(Rest) = 8

C8_Witness ==
    /\ ~proc_list
    /\ pc = "done"
    /\ status = 0
    /\ Len(Rest) = 8
    /\ sys_storage_info.total # sys_storage_info.free
    /\ RetOf("get_total_system_memory") # RetOf("get_available_system_memory")

C10_Frame ==
    /\ proc_list => \A i \in 1..Len(calls) : calls[i].fn \notin MetricFns
    /\ ~proc_list => CallIdx("get_proc_list") = {}
    /\ Cardinality(CallIdx("which_os")) <= 1
    /\ pc \notin {"parse", "header", "which_os"}
         => Cardinality(CallIdx("which_os")) = 1
    /\ \A i \in CallIdx("which_os") :
         /\ \E j \in 1..(i - 1) : calls[j].fn = "print_output_header"
         /\ Len(out) >= 4
    /\ \A i \in 1..Len(calls) :
         calls[i].fn \in QueryFns
            => \E j \in 1..(i - 1) : calls[j].fn = "which_os"

C10_Witness ==
    /\ pc = "done"
    /\ ~proc_list
    /\ status = 0
    /\ \A fn \in MetricFns : Returned(fn)

====
